---- MODULE Spec2Model ----
(***************************************************************************)
(* Model of alvr/server/src/lib.rs: the video dispatch step                *)
(* (ServerCoreContext::send_video_nal), the decoder config and the         *)
(* recording file (set_video_config_nals, create_recording_file), the      *)
(* process lifecycle (start_connection, restart, Drop for                  *)
(* ServerCoreContext), the event queue (EVENTS_QUEUE, poll_event), the     *)
(* lock operations of the handlers, and the parts of the connection module *)
(* that lib.rs only uses: the client table and the video channel whose     *)
(* sender lives in VIDEO_CHANNEL_SENDER.                                   *)
(*                                                                         *)
(* Spec is the whole context from construction to teardown, with the       *)
(* recording off; SpecDispatch, SpecEvents and SpecMedia start from a      *)
(* streaming connection and follow the frames, the event queue and the     *)
(* recording; SpecLocks follows the lock operations inside the handlers.   *)
(***************************************************************************)
EXTENDS Integers, Sequences, FiniteSets, TLC

\* ------------------------------------------------------------------ bounds
\* Number of frames the encoder threads submit in one behaviour of the
\* dispatch specification, and in one behaviour of the full specification.
MaxFrames == 3
MaxFramesLifecycle == 1
\* Capacity of the bounded video channel behind VIDEO_CHANNEL_SENDER.
ChannelCap == 2
\* Cap on the pending entries of EVENTS_QUEUE (the VecDeque is unbounded).
MaxEvents == 2
\* How many times the shutdown path is run in one behaviour.
MaxTeardownRuns == 2
\* How many decoder configs the encoder hands to set_video_config_nals.
MaxConfigs == 2

\* Client identities of the client table, and the threads that submit frames.
Hostnames == {"h1", "h2"}
Threads == {"t1", "t2"}

FrameIds == 1..MaxFrames
\* The events the connection module pushes to EVENTS_QUEUE.
ConnectionEvents == {"ClientConnected", "ClientDisconnected"}

VARIABLES
    LIFECYCLE_STATE,      \* lib.rs:95   StartingUp | Resumed | ShuttingDown
    IS_RESTARTING,        \* lib.rs:96
    CONNECTION_THREAD,    \* lib.rs:97   TRUE = Some(handle), FALSE = None
    EVENTS_QUEUE,         \* lib.rs:93   sequence of event tags
    STREAM_CORRUPTED,     \* lib.rs:276
    VIDEO_CHANNEL_SENDER, \* lib.rs:63   TRUE = Some(sender), FALSE = None
    videoChannel,         \* packets queued in the channel of the current sender
    receiverAlive,        \* FALSE once the receiving end of that channel is dropped
    delivered,            \* packets the receiving end has taken, in order
    clients,              \* SERVER_DATA_MANAGER client_list: hostname -> connection_state
    drivers_backup,       \* session.drivers_backup: TRUE = Some(backup)
    driversRestored,      \* driver_registration calls of lib.rs:445-446 were made
    openvrConfigApplied,  \* session.openvr_config rewritten by lib.rs:433-437
    WEBSERVER_RUNTIME,    \* lib.rs:106  TRUE = Some(runtime)
    targetWindows,        \* cfg(target_os = "windows") of lib.rs:458
    avoid_video_glitching,\* settings.connection.avoid_video_glitching
    dropPc,               \* position inside Drop::drop; "none" while the context is alive
    teardownRuns,         \* number of runs of the shutdown path started
    terminal,             \* terminal state recorded when the first run finished
    pc,                   \* per submitting thread: "idle" | "called"
    frame,                \* per submitting thread: the frame being submitted
    nextId,               \* next frame timestamp handed out by the encoder
    frameBudget,          \* number of frames the encoder submits in this behaviour
    doneAtInvoke,         \* frame id -> ids whose call had returned when it was invoked
    awaitingIdr,          \* flag was set and no IDR has been accepted since
    lastCall,             \* what the most recent send_video_nal call did
    rolling_video_files,  \* settings.extra.capture.rolling_video_files is Enabled
    rotationElapsed,      \* Instant::now() > LAST_IDR_INSTANT + duration_s (lib.rs:293-294)
    DECODER_CONFIG,       \* lib.rs:115  0 = None, n = Some(the n-th config)
    VIDEO_RECORDING_FILE, \* lib.rs:113  the open file and what was written to it
    VIDEO_MIRROR_SENDER,  \* lib.rs:112  TRUE = Some(sender), FALSE = None
    STATISTICS_MANAGER,   \* lib.rs:108  TRUE = Some(manager), FALSE = None
    lastPolled,           \* what the most recent poll_event call returned
    lastOp,               \* the operation on the video state that returned last
    lockPc,               \* per thread of the lock-level view: index into its program
    lockProg,             \* per thread of the lock-level view: the program it runs
    mutexOwner,           \* mutex -> thread holding it, or "free"
    sdmReaders,           \* thread -> number of SERVER_DATA_MANAGER read guards it holds
    sdmWriter,            \* thread holding the SERVER_DATA_MANAGER write guard, or "none"
    sdmWriterWaiting      \* threads parked in SERVER_DATA_MANAGER.write()

vars == <<LIFECYCLE_STATE, IS_RESTARTING, CONNECTION_THREAD, EVENTS_QUEUE,
          STREAM_CORRUPTED, VIDEO_CHANNEL_SENDER, videoChannel, receiverAlive,
          delivered, clients, drivers_backup, driversRestored, openvrConfigApplied,
          WEBSERVER_RUNTIME, targetWindows, avoid_video_glitching,
          dropPc, teardownRuns, terminal, pc, frame, nextId, frameBudget,
          doneAtInvoke, awaitingIdr, lastCall,
          rolling_video_files, rotationElapsed, DECODER_CONFIG, VIDEO_RECORDING_FILE,
          VIDEO_MIRROR_SENDER, STATISTICS_MANAGER, lastPolled, lastOp,
          lockPc, lockProg, mutexOwner, sdmReaders, sdmWriter, sdmWriterWaiting>>

lifecycleVars == <<LIFECYCLE_STATE, IS_RESTARTING>>
teardownVars == <<CONNECTION_THREAD, drivers_backup, driversRestored,
                  openvrConfigApplied, WEBSERVER_RUNTIME, dropPc, teardownRuns,
                  terminal>>
channelVars == <<VIDEO_CHANNEL_SENDER, videoChannel, receiverAlive, delivered>>
dispatchVars == <<STREAM_CORRUPTED, pc, frame, nextId, frameBudget, doneAtInvoke,
                  awaitingIdr, lastCall>>
settingsVars == <<targetWindows, avoid_video_glitching>>
mediaVars == <<rolling_video_files, rotationElapsed, DECODER_CONFIG,
               VIDEO_RECORDING_FILE, VIDEO_MIRROR_SENDER, STATISTICS_MANAGER>>
observedVars == <<lastPolled, lastOp>>
lockVars == <<lockPc, lockProg, mutexOwner, sdmReaders, sdmWriter, sdmWriterWaiting>>

\* ------------------------------------------------------------- data model
LifecycleState == {"StartingUp", "Resumed", "ShuttingDown"}
ConnectionState == {"Connecting", "Connected", "Disconnecting", "Disconnected"}

NoFrame == [id |-> 0, is_idr |-> FALSE]
NoCall == [is_idr |-> FALSE, outcome |-> "None",
           corruptedBefore |-> TRUE, awaitingBefore |-> TRUE,
           rotationDue |-> FALSE, events |-> <<>>, rotated |-> FALSE,
           created |-> FALSE, timerReset |-> FALSE, recorded |-> FALSE,
           mirrored |-> FALSE, statsReported |-> FALSE]
\* VIDEO_RECORDING_FILE: None, or the open file with the config written when
\* it was created (0 = none) and the kind of the first frame payload in it.
NoFile == [open |-> FALSE, header |-> 0, first |-> "none"]
NoTerminal == [lifecycle |-> "None", clients |-> [h \in Hostnames |-> "Disconnected"],
               drivers_backup |-> FALSE, connection_thread |-> FALSE]

AnyConnected(cl) == \E h \in Hostnames : cl[h] = "Connected"
AllDisconnected(cl) == \A h \in Hostnames : cl[h] = "Disconnected"

\* The context is alive (not yet consumed by restart or drop): the &self
\* methods can only be called on a live ServerCoreContext.
ContextAlive == dropPc = "none"
NoCallInProgress == \A t \in Threads : pc[t] = "idle"

\* The threads and the mutexes of the lock-level view of the handlers.
LockThreads == {"encoder", "present", "handshake", "teardown"}
Mutexes == {"VIDEO_CHANNEL_SENDER", "EVENTS_QUEUE", "STATISTICS_MANAGER",
            "BITRATE_MANAGER", "DECODER_CONFIG", "VIDEO_RECORDING_FILE",
            "VIDEO_MIRROR_SENDER", "LAST_IDR_INSTANT"}

\* lib.rs:108-115  the statics start as None (lazy_mut_none); the rolling
\* recording is off and nothing was polled yet.
MediaOff ==
    /\ rolling_video_files = FALSE
    /\ rotationElapsed = FALSE
    /\ DECODER_CONFIG = 0
    /\ VIDEO_RECORDING_FILE = NoFile
    /\ VIDEO_MIRROR_SENDER = FALSE
    /\ STATISTICS_MANAGER = FALSE
    /\ lastPolled = "Never"
    /\ lastOp = "none"

\* No handler is inside a critical section and every lock is free.
LocksIdle ==
    /\ lockPc = [th \in LockThreads |-> 0]
    /\ lockProg = [th \in LockThreads |-> <<>>]
    /\ mutexOwner = [m \in Mutexes |-> "free"]
    /\ sdmReaders = [th \in LockThreads |-> 0]
    /\ sdmWriter = "none"
    /\ sdmWriterWaiting = {}

\* --------------------------------------------------------------- Init
Init ==
    /\ LIFECYCLE_STATE = "StartingUp"
    /\ IS_RESTARTING = FALSE
    /\ CONNECTION_THREAD = FALSE
    /\ EVENTS_QUEUE = <<>>
    /\ STREAM_CORRUPTED = TRUE
    /\ VIDEO_CHANNEL_SENDER = FALSE
    /\ videoChannel = <<>>
    /\ receiverAlive = FALSE
    /\ delivered = <<>>
    /\ clients = [h \in Hostnames |-> "Disconnected"]
    /\ drivers_backup \in BOOLEAN
    /\ driversRestored = FALSE
    /\ openvrConfigApplied = FALSE
    /\ WEBSERVER_RUNTIME = TRUE
    /\ targetWindows \in BOOLEAN
    /\ avoid_video_glitching \in BOOLEAN
    /\ dropPc = "none"
    /\ teardownRuns = 0
    /\ terminal = NoTerminal
    /\ pc = [t \in Threads |-> "idle"]
    /\ frame = [t \in Threads |-> NoFrame]
    /\ nextId = 1
    /\ frameBudget = MaxFramesLifecycle
    /\ doneAtInvoke = [i \in FrameIds |-> {}]
    /\ awaitingIdr = TRUE
    /\ lastCall = NoCall
    /\ MediaOff
    /\ LocksIdle

\* ------------------------------------------------- send_video_nal, pieces
\* lib.rs:279  if let Some(sender) = &*VIDEO_CHANNEL_SENDER.lock()
\* (variant: a sender kept from an earlier connection is used)
SenderPresent_stale == TRUE
SenderPresent == VIDEO_CHANNEL_SENDER

\* (variant: an IDR does not clear the flag)
ClearOnIdr_never(is_idr, corrupted) == corrupted
\* lib.rs:282-284  if is_idr { STREAM_CORRUPTED.store(false) }
ClearOnIdr(is_idr, corrupted) == IF is_idr THEN FALSE ELSE corrupted

\* lib.rs:286-297  rolling_video_files is Enabled and Instant::now() is past
\* LAST_IDR_INSTANT + duration_s (rotationDue): RequestIDR is pushed
RotationEvents(rotationDue) == IF rotationDue THEN <<"RequestIDR">> ELSE <<>>

\* lib.rs:305-311  !STREAM_CORRUPTED || !avoid_video_glitching
ShouldForward(corrupted, avoid) == ~corrupted \/ ~avoid

\* (variant: the packet is queued at the head of the channel)
try_send_front(chan, alive, packet) ==
    IF ~alive THEN [result |-> "Disconnected", chan |-> chan]
    ELSE IF Len(chan) >= ChannelCap THEN [result |-> "Full", chan |-> chan]
    ELSE [result |-> "Ok", chan |-> <<packet>> \o chan]
\* lib.rs:320-327  sender.try_send(VideoPacket{..}) on the bounded channel:
\* Disconnected once the receiving end is gone, Full at capacity, else queued
\* at the tail.
try_send(chan, alive, packet) ==
    IF ~alive THEN [result |-> "Disconnected", chan |-> chan]
    ELSE IF Len(chan) >= ChannelCap THEN [result |-> "Full", chan |-> chan]
    ELSE [result |-> "Ok", chan |-> Append(chan, packet)]

\* (variant: a full channel does not set the flag)
CorruptedAfterSend_unset(result, corrupted) == corrupted
\* lib.rs:328-330  Err(TrySendError::Full(_)) => STREAM_CORRUPTED.store(true)
CorruptedAfterSend(result, corrupted) == IF result = "Full" THEN TRUE ELSE corrupted

\* (variant: nothing is pushed when the channel is full)
FailureEvents_none(result) == <<>>
\* lib.rs:331  EVENTS_QUEUE.lock().push_back(RequestIDR) on Full
FailureEvents(result) == IF result = "Full" THEN <<"RequestIDR">> ELSE <<>>

\* What one call does to the flag, the channel and the event queue, given
\* the frame and whether a rotation of the recording is due (lib.rs:279-336).
DispatchResult(f, rotationDue) ==
    LET c1 == ClearOnIdr(f.is_idr, STREAM_CORRUPTED)
        ev1 == RotationEvents(rotationDue)
    IN  IF ShouldForward(c1, avoid_video_glitching)
        THEN LET r == try_send(videoChannel, receiverAlive,
                               [timestamp |-> f.id, is_idr |-> f.is_idr])
             IN [outcome |-> IF r.result = "Ok" THEN "Forwarded"
                             ELSE IF r.result = "Full" THEN "ChannelFull"
                             ELSE "Disconnected",
                 corrupted |-> CorruptedAfterSend(r.result, c1),
                 chan |-> r.chan,
                 events |-> ev1 \o FailureEvents(r.result)]
        ELSE [outcome |-> "AwaitingKeyFrame", corrupted |-> c1,
              chan |-> videoChannel, events |-> ev1]

\* lib.rs:274  an encoder thread calls send_video_nal with the next frame;
\* timestamps are handed out in increasing order.
call_send_video_nal(t) ==
    /\ ContextAlive
    /\ pc[t] = "idle"
    /\ nextId <= frameBudget
    /\ \E idr \in BOOLEAN :
         frame' = [frame EXCEPT ![t] = [id |-> nextId, is_idr |-> idr]]
    /\ pc' = [pc EXCEPT ![t] = "called"]
    /\ doneAtInvoke' = [doneAtInvoke EXCEPT ![nextId] =
            (1..(nextId - 1)) \ {frame[u].id : u \in {v \in Threads : pc[v] = "called"}}]
    /\ nextId' = nextId + 1
    /\ UNCHANGED <<STREAM_CORRUPTED, frameBudget, awaitingIdr, lastCall, EVENTS_QUEUE,
                   clients>>
    /\ UNCHANGED <<lifecycleVars, teardownVars, channelVars, settingsVars>>
    /\ UNCHANGED <<mediaVars, observedVars, lockVars>>

\* lib.rs:293-294  the rolling recording is Enabled and the interval has
\* elapsed since LAST_IDR_INSTANT
RotationDue == rolling_video_files /\ rotationElapsed

\* (variant: the recording is rotated on any frame once the interval elapsed)
ShouldRotate_anyFrame(rotationDue, is_idr) == rotationDue
\* lib.rs:298-301  if is_idr { create_recording_file(..); *LAST_IDR_INSTANT = now }
ShouldRotate(rotationDue, is_idr) == rotationDue /\ is_idr

\* lib.rs:130-138  File::create succeeded (createOk): the new file starts with
\* config_buffer when DECODER_CONFIG is Some and replaces the file in
\* VIDEO_RECORDING_FILE.  lib.rs:140-142: on Err only an error is logged.
CreateRecordingFile(file, config, createOk) ==
    IF createOk THEN [open |-> TRUE, header |-> config, first |-> "none"] ELSE file

\* (variant: the payload is written whether or not the frame passed the gate)
PayloadWritten_ungated(passed, present) == present
\* lib.rs:312-318  inside the block of line 305: the payload goes to the
\* mirror / the recording file when the frame passed the gate and the mirror
\* sender / the file is Some
PayloadWritten(passed, present) == passed /\ present

\* lib.rs:316-318  file.write_all(&nal_buffer)
WritePayload(file, is_idr) ==
    IF file.first = "none"
    THEN [file EXCEPT !.first = IF is_idr THEN "idr" ELSE "non_idr"]
    ELSE file

\* (variant: only a frame the channel accepted is reported)
ReportFrameEncoded_accepted(statsPresent, outcome) ==
    statsPresent /\ outcome = "Forwarded"
\* lib.rs:338-346  after the if/else of lines 305-336, for every outcome:
\* if let Some(stats) = STATISTICS_MANAGER { stats.report_frame_encoded(..);
\* BITRATE_MANAGER.lock().report_frame_encoded(..) }
ReportFrameEncoded(statsPresent, outcome) == statsPresent

\* lib.rs:274-348  the body of send_video_nal, run under the
\* VIDEO_CHANNEL_SENDER lock, which is held from line 279 to line 347.
send_video_nal(t) ==
    /\ pc[t] = "called"
    /\ pc' = [pc EXCEPT ![t] = "idle"]
    /\ frame' = [frame EXCEPT ![t] = NoFrame]
    /\ lastOp' = "send_video_nal"
    /\ UNCHANGED <<nextId, frameBudget, doneAtInvoke, clients, VIDEO_CHANNEL_SENDER,
                   receiverAlive, delivered>>
    /\ UNCHANGED <<rolling_video_files, DECODER_CONFIG, VIDEO_MIRROR_SENDER,
                   STATISTICS_MANAGER, lastPolled>>
    /\ UNCHANGED <<lifecycleVars, teardownVars, settingsVars, lockVars>>
    /\ IF ~SenderPresent
       THEN /\ lastCall' = [NoCall EXCEPT !.is_idr = frame[t].is_idr,
                                          !.outcome = "NoSender",
                                          !.corruptedBefore = STREAM_CORRUPTED,
                                          !.awaitingBefore = awaitingIdr]
            /\ UNCHANGED <<STREAM_CORRUPTED, videoChannel, EVENTS_QUEUE, awaitingIdr,
                           rotationElapsed, VIDEO_RECORDING_FILE>>
       ELSE LET is_idr == frame[t].is_idr
                d == DispatchResult(frame[t], RotationDue)
                rotate == ShouldRotate(RotationDue, is_idr)
                passed == d.outcome # "AwaitingKeyFrame"
            IN  \E createOk \in IF rotate THEN BOOLEAN ELSE {FALSE} :
                  LET file1 == IF rotate
                               THEN CreateRecordingFile(VIDEO_RECORDING_FILE,
                                                        DECODER_CONFIG, createOk)
                               ELSE VIDEO_RECORDING_FILE
                      recorded == PayloadWritten(passed, file1.open)
                  IN  /\ Len(EVENTS_QUEUE) + Len(d.events) <= MaxEvents
                      /\ STREAM_CORRUPTED' = d.corrupted
                      /\ videoChannel' = d.chan
                      /\ EVENTS_QUEUE' = EVENTS_QUEUE \o d.events
                      /\ rotationElapsed' = IF rotate THEN FALSE ELSE rotationElapsed
                      /\ VIDEO_RECORDING_FILE' =
                            IF recorded THEN WritePayload(file1, is_idr) ELSE file1
                      /\ awaitingIdr' =
                            IF d.outcome = "Forwarded" /\ is_idr THEN FALSE
                            ELSE IF d.corrupted THEN TRUE
                            ELSE awaitingIdr
                      /\ lastCall' =
                            [is_idr |-> is_idr, outcome |-> d.outcome,
                             corruptedBefore |-> STREAM_CORRUPTED,
                             awaitingBefore |-> awaitingIdr,
                             rotationDue |-> RotationDue,
                             events |-> d.events,
                             rotated |-> rotate,
                             created |-> rotate /\ createOk,
                             timerReset |-> rotate,
                             recorded |-> recorded,
                             mirrored |-> PayloadWritten(passed, VIDEO_MIRROR_SENDER),
                             statsReported |->
                                ReportFrameEncoded(STATISTICS_MANAGER, d.outcome)]

\* (variant: the newest event is taken)
pop_front_newest(q) ==
    IF q = <<>> THEN [value |-> "None", rest |-> q]
    ELSE [value |-> q[Len(q)], rest |-> SubSeq(q, 1, Len(q) - 1)]
\* lib.rs:223  VecDeque::pop_front: None on an empty queue, else the oldest
\* entry, which is removed
pop_front(q) ==
    IF q = <<>> THEN [value |-> "None", rest |-> q]
    ELSE [value |-> Head(q), rest |-> Tail(q)]

\* lib.rs:222-224  EVENTS_QUEUE.lock().pop_front()
poll_event ==
    /\ ContextAlive
    /\ EVENTS_QUEUE' = pop_front(EVENTS_QUEUE).rest
    /\ lastPolled' = pop_front(EVENTS_QUEUE).value
    /\ UNCHANGED <<clients, lastOp>>
    /\ UNCHANGED <<lifecycleVars, teardownVars, channelVars, dispatchVars, settingsVars>>
    /\ UNCHANGED <<mediaVars, lockVars>>

\* ----------------------------------------- decoder config and recording
\* (variant: a config that is already there is kept)
StoreConfig_keep(old, new) == IF old = 0 THEN new ELSE old
\* lib.rs:268-271  *DECODER_CONFIG.lock() = Some(DecoderInitializationConfig{..})
StoreConfig(old, new) == new

\* lib.rs:264-266  file.write_all(&config_buffer): the config is appended, so
\* it is the start of the content only if the file was empty
WriteConfig(file, config) ==
    IF file.open /\ file.header = 0 /\ file.first = "none"
    THEN [file EXCEPT !.header = config]
    ELSE file

\* lib.rs:259-272  the encoder hands over its next config: it is sent to the
\* mirror (if any), written to the recording file (if any) and stored in
\* DECODER_CONFIG. EVENTS_QUEUE is not touched.
set_video_config_nals ==
    /\ ContextAlive
    /\ DECODER_CONFIG < MaxConfigs
    /\ VIDEO_RECORDING_FILE' = WriteConfig(VIDEO_RECORDING_FILE, DECODER_CONFIG + 1)
    /\ DECODER_CONFIG' = StoreConfig(DECODER_CONFIG, DECODER_CONFIG + 1)
    /\ lastOp' = "set_video_config_nals"
    /\ UNCHANGED <<rolling_video_files, rotationElapsed, VIDEO_MIRROR_SENDER,
                   STATISTICS_MANAGER, lastPolled, EVENTS_QUEUE, clients>>
    /\ UNCHANGED <<lifecycleVars, teardownVars, channelVars, dispatchVars, settingsVars,
                   lockVars>>

\* lib.rs:117-144  create_recording_file called from outside send_video_nal
\* (recording started on request). When File::create fails only an error is
\* logged. RequestIDR() at line 138 asks the encoder for a key frame; the
\* frames it submits meanwhile still go through send_video_nal.
create_recording_file ==
    /\ ContextAlive
    /\ \E createOk \in BOOLEAN :
         /\ VIDEO_RECORDING_FILE' =
               CreateRecordingFile(VIDEO_RECORDING_FILE, DECODER_CONFIG, createOk)
         /\ lastOp' = IF createOk THEN "create_recording_file" ELSE lastOp
    /\ UNCHANGED <<rolling_video_files, rotationElapsed, DECODER_CONFIG,
                   VIDEO_MIRROR_SENDER, STATISTICS_MANAGER, lastPolled, EVENTS_QUEUE,
                   clients>>
    /\ UNCHANGED <<lifecycleVars, teardownVars, channelVars, dispatchVars, settingsVars,
                   lockVars>>

\* lib.rs:293-294  the clock passes LAST_IDR_INSTANT + duration_s
time_passes ==
    /\ rolling_video_files
    /\ ~rotationElapsed
    /\ rotationElapsed' = TRUE
    /\ UNCHANGED <<rolling_video_files, DECODER_CONFIG, VIDEO_RECORDING_FILE,
                   VIDEO_MIRROR_SENDER, STATISTICS_MANAGER, EVENTS_QUEUE, clients>>
    /\ UNCHANGED <<lifecycleVars, teardownVars, channelVars, dispatchVars, settingsVars,
                   observedVars, lockVars>>

\* ------------------------------------------------------------ lifecycle
\* lib.rs:213-220  *LIFECYCLE_STATE.write() = Resumed; spawn handshake_loop
start_connection ==
    /\ ContextAlive
    /\ LIFECYCLE_STATE' = "Resumed"
    /\ UNCHANGED <<IS_RESTARTING, EVENTS_QUEUE, clients>>
    /\ UNCHANGED <<teardownVars, channelVars, dispatchVars, settingsVars>>
    /\ UNCHANGED <<mediaVars, observedVars, lockVars>>

\* lib.rs:393-397  restart(self): IS_RESTARTING.set(true), then self is dropped.
\* Taking self by value needs every borrow of the context to have ended.
restart ==
    /\ ContextAlive
    /\ NoCallInProgress
    /\ IS_RESTARTING' = TRUE
    /\ dropPc' = "lifecycle"
    /\ teardownRuns' = 1
    /\ UNCHANGED <<LIFECYCLE_STATE, CONNECTION_THREAD, drivers_backup, driversRestored,
                   openvrConfigApplied, WEBSERVER_RUNTIME, terminal, EVENTS_QUEUE, clients>>
    /\ UNCHANGED <<channelVars, dispatchVars, settingsVars>>
    /\ UNCHANGED <<mediaVars, observedVars, lockVars>>

\* lib.rs:400-401  the context goes out of scope without restart: drop begins
shutdown ==
    /\ ContextAlive
    /\ NoCallInProgress
    /\ dropPc' = "lifecycle"
    /\ teardownRuns' = 1
    /\ UNCHANGED <<lifecycleVars, CONNECTION_THREAD, drivers_backup, driversRestored,
                   openvrConfigApplied, WEBSERVER_RUNTIME, terminal, EVENTS_QUEUE, clients>>
    /\ UNCHANGED <<channelVars, dispatchVars, settingsVars>>
    /\ UNCHANGED <<mediaVars, observedVars, lockVars>>

\* The shutdown path entered once more after it has completed.
drop_again ==
    /\ dropPc = "done"
    /\ teardownRuns < MaxTeardownRuns
    /\ dropPc' = "lifecycle"
    /\ teardownRuns' = teardownRuns + 1
    /\ UNCHANGED <<lifecycleVars, CONNECTION_THREAD, drivers_backup, driversRestored,
                   openvrConfigApplied, WEBSERVER_RUNTIME, terminal, EVENTS_QUEUE, clients>>
    /\ UNCHANGED <<channelVars, dispatchVars, settingsVars>>
    /\ UNCHANGED <<mediaVars, observedVars, lockVars>>

\* (variant: the lifecycle is reset instead of moved to ShuttingDown)
DropLifecycleValue_reset == "StartingUp"
\* lib.rs:403  the value stored by drop
DropLifecycleValue == "ShuttingDown"

\* lib.rs:402-403  *LIFECYCLE_STATE.write() = ShuttingDown
DropSetLifecycle ==
    /\ dropPc = "lifecycle"
    /\ LIFECYCLE_STATE' = DropLifecycleValue
    /\ dropPc' = "mark"
    /\ UNCHANGED <<IS_RESTARTING, CONNECTION_THREAD, drivers_backup, driversRestored,
                   openvrConfigApplied, WEBSERVER_RUNTIME, teardownRuns, terminal,
                   EVENTS_QUEUE, clients>>
    /\ UNCHANGED <<channelVars, dispatchVars, settingsVars>>
    /\ UNCHANGED <<mediaVars, observedVars, lockVars>>

\* (variant: the filter leaves out only the clients already Disconnecting)
MarkDisconnecting_all(cl) ==
    [h \in Hostnames |-> IF cl[h] # "Disconnecting" THEN "Disconnecting" ELSE cl[h]]
\* lib.rs:408-425  every client that is neither Disconnected nor Disconnecting
\* is set to Disconnecting
MarkDisconnecting(cl) ==
    [h \in Hostnames |->
        IF cl[h] \notin {"Disconnected", "Disconnecting"} THEN "Disconnecting" ELSE cl[h]]

\* lib.rs:405-426  done under one SERVER_DATA_MANAGER write lock
DropMarkClients ==
    /\ dropPc = "mark"
    /\ clients' = MarkDisconnecting(clients)
    /\ dropPc' = "join"
    /\ UNCHANGED <<CONNECTION_THREAD, drivers_backup, driversRestored,
                   openvrConfigApplied, WEBSERVER_RUNTIME, teardownRuns, terminal,
                   EVENTS_QUEUE>>
    /\ UNCHANGED <<lifecycleVars, channelVars, dispatchVars, settingsVars>>
    /\ UNCHANGED <<mediaVars, observedVars, lockVars>>

\* lib.rs:428-430  CONNECTION_THREAD.write().take(), join the thread. The
\* handshake loop ends once the lifecycle is ShuttingDown, so the join returns.
DropJoinConnectionThread ==
    /\ dropPc = "join"
    /\ CONNECTION_THREAD' = FALSE
    /\ dropPc' = "config"
    /\ UNCHANGED <<drivers_backup, driversRestored, openvrConfigApplied,
                   WEBSERVER_RUNTIME, teardownRuns, terminal, EVENTS_QUEUE, clients>>
    /\ UNCHANGED <<lifecycleVars, channelVars, dispatchVars, settingsVars>>
    /\ UNCHANGED <<mediaVars, observedVars, lockVars>>

\* lib.rs:432-437  session.openvr_config = contruct_openvr_config(session)
DropApplyOpenvrConfig ==
    /\ dropPc = "config"
    /\ openvrConfigApplied' = TRUE
    /\ dropPc' = "restore"
    /\ UNCHANGED <<CONNECTION_THREAD, drivers_backup, driversRestored,
                   WEBSERVER_RUNTIME, teardownRuns, terminal, EVENTS_QUEUE, clients>>
    /\ UNCHANGED <<lifecycleVars, channelVars, dispatchVars, settingsVars>>
    /\ UNCHANGED <<mediaVars, observedVars, lockVars>>

\* lib.rs:439-447  drivers_backup.take(); if Some, driver_registration is restored
DropRestoreDrivers ==
    /\ dropPc = "restore"
    /\ drivers_backup' = FALSE
    /\ driversRestored' = (driversRestored \/ drivers_backup)
    /\ dropPc' = "wait"
    /\ UNCHANGED <<CONNECTION_THREAD, openvrConfigApplied, WEBSERVER_RUNTIME,
                   teardownRuns, terminal, EVENTS_QUEUE, clients>>
    /\ UNCHANGED <<lifecycleVars, channelVars, dispatchVars, settingsVars>>
    /\ UNCHANGED <<mediaVars, observedVars, lockVars>>

\* (variant: the loop waits only for the clients still Connected)
WaitForClients_connected(cl) == \E h \in Hostnames : cl[h] = "Connected"
\* lib.rs:449-453  the condition of the wait loop
WaitForClients(cl) == \E h \in Hostnames : cl[h] # "Disconnected"

\* lib.rs:449-456  the loop sleeps 100 ms and re-reads the client list for as
\* long as the condition holds; it is left only when the condition is false.
\* An iteration that finds a client not Disconnected changes no state.
DropWaitClients ==
    /\ dropPc = "wait"
    /\ ~WaitForClients(clients)
    /\ dropPc' = "runtime"
    /\ UNCHANGED <<CONNECTION_THREAD, drivers_backup, driversRestored,
                   openvrConfigApplied, WEBSERVER_RUNTIME, teardownRuns, terminal,
                   EVENTS_QUEUE, clients>>
    /\ UNCHANGED <<lifecycleVars, channelVars, dispatchVars, settingsVars>>
    /\ UNCHANGED <<mediaVars, observedVars, lockVars>>

TerminalState ==
    [lifecycle |-> LIFECYCLE_STATE, clients |-> clients,
     drivers_backup |-> drivers_backup, connection_thread |-> CONNECTION_THREAD]

\* lib.rs:458-460  on Windows WEBSERVER_RUNTIME.lock().take(); drop returns
DropReleaseRuntime ==
    /\ dropPc = "runtime"
    /\ WEBSERVER_RUNTIME' = (IF targetWindows THEN FALSE ELSE WEBSERVER_RUNTIME)
    /\ dropPc' = "done"
    /\ terminal' = (IF teardownRuns = 1 THEN TerminalState ELSE terminal)
    /\ UNCHANGED <<CONNECTION_THREAD, drivers_backup, driversRestored,
                   openvrConfigApplied, teardownRuns, EVENTS_QUEUE, clients>>
    /\ UNCHANGED <<lifecycleVars, channelVars, dispatchVars, settingsVars>>
    /\ UNCHANGED <<mediaVars, observedVars, lockVars>>

Drop ==
    \/ DropSetLifecycle
    \/ DropMarkClients
    \/ DropJoinConnectionThread
    \/ DropApplyOpenvrConfig
    \/ DropRestoreDrivers
    \/ DropWaitClients
    \/ DropReleaseRuntime

\* --------------------------------- connection module (outside lib.rs)
\* The handshake loop spawned by start_connection finds a client.
client_connecting(h) ==
    /\ LIFECYCLE_STATE = "Resumed"
    /\ clients[h] = "Disconnected"
    /\ clients' = [clients EXCEPT ![h] = "Connecting"]
    /\ UNCHANGED <<EVENTS_QUEUE>>
    /\ UNCHANGED <<lifecycleVars, teardownVars, channelVars, dispatchVars, settingsVars>>
    /\ UNCHANGED <<mediaVars, observedVars, lockVars>>

\* Connecting --handshake success--> Connected
handshake_success(h) ==
    /\ clients[h] = "Connecting"
    /\ clients' = [clients EXCEPT ![h] = "Connected"]
    /\ UNCHANGED <<EVENTS_QUEUE>>
    /\ UNCHANGED <<lifecycleVars, teardownVars, channelVars, dispatchVars, settingsVars>>
    /\ UNCHANGED <<mediaVars, observedVars, lockVars>>

\* Connecting --timeout/failure--> Disconnected
handshake_failure(h) ==
    /\ clients[h] = "Connecting"
    /\ clients' = [clients EXCEPT ![h] = "Disconnected"]
    /\ UNCHANGED <<EVENTS_QUEUE>>
    /\ UNCHANGED <<lifecycleVars, teardownVars, channelVars, dispatchVars, settingsVars>>
    /\ UNCHANGED <<mediaVars, observedVars, lockVars>>

\* Connected --heartbeat loss/explicit disconnect--> Disconnecting. The
\* connection component gates the transport: when the last Connected client
\* leaves, the sender is taken out of VIDEO_CHANNEL_SENDER in the same step.
client_disconnect(h) ==
    /\ clients[h] = "Connected"
    /\ clients' = [clients EXCEPT ![h] = "Disconnecting"]
    /\ VIDEO_CHANNEL_SENDER' = (VIDEO_CHANNEL_SENDER /\ AnyConnected(clients'))
    /\ UNCHANGED <<videoChannel, receiverAlive, delivered, EVENTS_QUEUE>>
    /\ UNCHANGED <<lifecycleVars, teardownVars, dispatchVars, settingsVars>>
    /\ UNCHANGED <<mediaVars, observedVars, lockVars>>

\* Disconnecting --teardown complete--> Disconnected
client_disconnected(h) ==
    /\ clients[h] = "Disconnecting"
    /\ clients' = [clients EXCEPT ![h] = "Disconnected"]
    /\ UNCHANGED <<EVENTS_QUEUE>>
    /\ UNCHANGED <<lifecycleVars, teardownVars, channelVars, dispatchVars, settingsVars>>
    /\ UNCHANGED <<mediaVars, observedVars, lockVars>>

\* A streaming connection creates the bounded video channel and stores its
\* sender; dispatch is permitted only while Resumed with a Connected client.
install_sender ==
    /\ LIFECYCLE_STATE = "Resumed"
    /\ AnyConnected(clients)
    /\ ~VIDEO_CHANNEL_SENDER
    /\ VIDEO_CHANNEL_SENDER' = TRUE
    /\ videoChannel' = <<>>
    /\ receiverAlive' = TRUE
    /\ UNCHANGED <<delivered, EVENTS_QUEUE, clients>>
    /\ UNCHANGED <<lifecycleVars, teardownVars, dispatchVars, settingsVars>>
    /\ UNCHANGED <<mediaVars, observedVars, lockVars>>

\* The streaming connection ends: *VIDEO_CHANNEL_SENDER.lock() = None
remove_sender ==
    /\ VIDEO_CHANNEL_SENDER
    /\ VIDEO_CHANNEL_SENDER' = FALSE
    /\ UNCHANGED <<videoChannel, receiverAlive, delivered, EVENTS_QUEUE, clients>>
    /\ UNCHANGED <<lifecycleVars, teardownVars, dispatchVars, settingsVars>>
    /\ UNCHANGED <<mediaVars, observedVars, lockVars>>

\* The video send thread takes the oldest packet out of the channel.
receiver_recv ==
    /\ receiverAlive
    /\ videoChannel # <<>>
    /\ delivered' = Append(delivered, Head(videoChannel))
    /\ videoChannel' = Tail(videoChannel)
    /\ UNCHANGED <<VIDEO_CHANNEL_SENDER, receiverAlive, EVENTS_QUEUE, clients>>
    /\ UNCHANGED <<lifecycleVars, teardownVars, dispatchVars, settingsVars>>
    /\ UNCHANGED <<mediaVars, observedVars, lockVars>>

\* The video send thread ends and drops the receiving end of the channel.
receiver_dropped ==
    /\ receiverAlive
    /\ receiverAlive' = FALSE
    /\ UNCHANGED <<VIDEO_CHANNEL_SENDER, videoChannel, delivered, EVENTS_QUEUE, clients>>
    /\ UNCHANGED <<lifecycleVars, teardownVars, dispatchVars, settingsVars>>
    /\ UNCHANGED <<mediaVars, observedVars, lockVars>>

\* The connection module stores the handle of its thread in CONNECTION_THREAD.
store_connection_thread ==
    /\ LIFECYCLE_STATE = "Resumed"
    /\ ContextAlive
    /\ ~CONNECTION_THREAD
    /\ CONNECTION_THREAD' = TRUE
    /\ UNCHANGED <<drivers_backup, driversRestored, openvrConfigApplied,
                   WEBSERVER_RUNTIME, dropPc, teardownRuns, terminal, EVENTS_QUEUE,
                   clients>>
    /\ UNCHANGED <<lifecycleVars, channelVars, dispatchVars, settingsVars>>
    /\ UNCHANGED <<mediaVars, observedVars, lockVars>>

\* The connection module reports a client event to the host:
\* EVENTS_QUEUE.lock().push_back(ClientConnected | ClientDisconnected)
connection_event(e) ==
    /\ Len(EVENTS_QUEUE) < MaxEvents
    /\ EVENTS_QUEUE' = Append(EVENTS_QUEUE, e)
    /\ UNCHANGED <<clients>>
    /\ UNCHANGED <<lifecycleVars, teardownVars, channelVars, dispatchVars, settingsVars>>
    /\ UNCHANGED <<mediaVars, observedVars, lockVars>>

Connection ==
    \/ \E h \in Hostnames : client_connecting(h)
    \/ \E h \in Hostnames : handshake_success(h)
    \/ \E h \in Hostnames : handshake_failure(h)
    \/ \E h \in Hostnames : client_disconnect(h)
    \/ \E h \in Hostnames : client_disconnected(h)
    \/ install_sender
    \/ remove_sender
    \/ receiver_recv
    \/ receiver_dropped
    \/ store_connection_thread

\* ------------------------------------------------------- specification
Next ==
    \/ \E t \in Threads : call_send_video_nal(t)
    \/ \E t \in Threads : send_video_nal(t)
    \/ poll_event
    \/ start_connection
    \/ restart
    \/ shutdown
    \/ drop_again
    \/ Drop
    \/ Connection

Spec == Init /\ [][Next]_vars

\* The dispatch pipeline on its own: the state once start_connection has run
\* and a client has connected, and from there the frame submissions and the
\* video channel, with the context alive throughout.
InitStreaming ==
    /\ LIFECYCLE_STATE = "Resumed"
    /\ IS_RESTARTING = FALSE
    /\ CONNECTION_THREAD = FALSE
    /\ EVENTS_QUEUE = <<>>
    /\ STREAM_CORRUPTED = TRUE
    /\ VIDEO_CHANNEL_SENDER = FALSE
    /\ videoChannel = <<>>
    /\ receiverAlive = FALSE
    /\ delivered = <<>>
    /\ clients = [h \in Hostnames |-> IF h = "h1" THEN "Connected" ELSE "Disconnected"]
    /\ drivers_backup = FALSE
    /\ driversRestored = FALSE
    /\ openvrConfigApplied = FALSE
    /\ WEBSERVER_RUNTIME = TRUE
    /\ targetWindows = FALSE
    /\ avoid_video_glitching \in BOOLEAN
    /\ dropPc = "none"
    /\ teardownRuns = 0
    /\ terminal = NoTerminal
    /\ pc = [t \in Threads |-> "idle"]
    /\ frame = [t \in Threads |-> NoFrame]
    /\ nextId = 1
    /\ frameBudget = MaxFrames
    /\ doneAtInvoke = [i \in FrameIds |-> {}]
    /\ awaitingIdr = TRUE
    /\ lastCall = NoCall
    /\ MediaOff
    /\ LocksIdle

NextDispatch ==
    \/ \E t \in Threads : call_send_video_nal(t)
    \/ \E t \in Threads : send_video_nal(t)
    \/ poll_event
    \/ install_sender
    \/ remove_sender
    \/ receiver_recv
    \/ receiver_dropped

SpecDispatch == InitStreaming /\ [][NextDispatch]_vars

\* The recording side of the dispatch: streaming is under way with the
\* rolling recording enabled, and frames, decoder configs, recording requests
\* and the clock interleave.
InitMedia ==
    /\ LIFECYCLE_STATE = "Resumed"
    /\ IS_RESTARTING = FALSE
    /\ CONNECTION_THREAD = FALSE
    /\ EVENTS_QUEUE = <<>>
    /\ STREAM_CORRUPTED = TRUE
    /\ VIDEO_CHANNEL_SENDER = TRUE
    /\ videoChannel = <<>>
    /\ receiverAlive = TRUE
    /\ delivered = <<>>
    /\ clients = [h \in Hostnames |-> IF h = "h1" THEN "Connected" ELSE "Disconnected"]
    /\ drivers_backup = FALSE
    /\ driversRestored = FALSE
    /\ openvrConfigApplied = FALSE
    /\ WEBSERVER_RUNTIME = TRUE
    /\ targetWindows = FALSE
    /\ avoid_video_glitching \in BOOLEAN
    /\ dropPc = "none"
    /\ teardownRuns = 0
    /\ terminal = NoTerminal
    /\ pc = [t \in Threads |-> "idle"]
    /\ frame = [t \in Threads |-> NoFrame]
    /\ nextId = 1
    /\ frameBudget = MaxFrames
    /\ doneAtInvoke = [i \in FrameIds |-> {}]
    /\ awaitingIdr = TRUE
    /\ lastCall = NoCall
    /\ rolling_video_files = TRUE
    /\ rotationElapsed = FALSE
    /\ DECODER_CONFIG = 0
    /\ VIDEO_RECORDING_FILE = NoFile
    /\ VIDEO_MIRROR_SENDER \in BOOLEAN
    /\ STATISTICS_MANAGER \in BOOLEAN
    /\ lastPolled = "Never"
    /\ lastOp = "none"
    /\ LocksIdle

\* One encoder thread submits the frames here.
NextMedia ==
    \/ call_send_video_nal("t1")
    \/ send_video_nal("t1")
    \/ set_video_config_nals
    \/ create_recording_file
    \/ time_passes
    \/ remove_sender

SpecMedia == InitMedia /\ [][NextMedia]_vars

\* The event queue with its producers (the threads inside send_video_nal and
\* the connection module) and its consumer (the host calling poll_event).
InitEvents ==
    /\ LIFECYCLE_STATE = "Resumed"
    /\ IS_RESTARTING = FALSE
    /\ CONNECTION_THREAD = FALSE
    /\ EVENTS_QUEUE = <<>>
    /\ STREAM_CORRUPTED = TRUE
    /\ VIDEO_CHANNEL_SENDER = TRUE
    /\ videoChannel = <<>>
    /\ receiverAlive = TRUE
    /\ delivered = <<>>
    /\ clients = [h \in Hostnames |-> IF h = "h1" THEN "Connected" ELSE "Disconnected"]
    /\ drivers_backup = FALSE
    /\ driversRestored = FALSE
    /\ openvrConfigApplied = FALSE
    /\ WEBSERVER_RUNTIME = TRUE
    /\ targetWindows = FALSE
    /\ avoid_video_glitching = FALSE
    /\ dropPc = "none"
    /\ teardownRuns = 0
    /\ terminal = NoTerminal
    /\ pc = [t \in Threads |-> "idle"]
    /\ frame = [t \in Threads |-> NoFrame]
    /\ nextId = 1
    /\ frameBudget = MaxFrames
    /\ doneAtInvoke = [i \in FrameIds |-> {}]
    /\ awaitingIdr = TRUE
    /\ lastCall = NoCall
    /\ MediaOff
    /\ LocksIdle

NextEvents ==
    \/ \E t \in Threads : call_send_video_nal(t)
    \/ \E t \in Threads : send_video_nal(t)
    \/ \E e \in ConnectionEvents : connection_event(e)
    \/ poll_event

SpecEvents == InitEvents /\ [][NextEvents]_vars

\* ------------------------------------------------- the handlers' locks
\* Each handler as the sequence of lock operations it performs, in program
\* order. A guard that is a temporary of an `if let` scrutinee is released
\* at the end of the `if let` block; a guard that is a temporary of a plain
\* statement or of an `if` condition is released at the end of it.
Lock(m) == [op |-> "lock", lock |-> m]
Unlock(m) == [op |-> "unlock", lock |-> m]
Read == [op |-> "read", lock |-> "SERVER_DATA_MANAGER"]
Unread == [op |-> "unread", lock |-> "SERVER_DATA_MANAGER"]
Write == [op |-> "write", lock |-> "SERVER_DATA_MANAGER"]
Unwrite == [op |-> "unwrite", lock |-> "SERVER_DATA_MANAGER"]

\* lib.rs:279-347  send_video_nal for an IDR frame when the rotation is due:
\* the read guard of line 286 is held to line 303, and line 299 takes a
\* second read guard for the call of create_recording_file (lib.rs:132-136).
NalRotateProgram ==
    << Lock("VIDEO_CHANNEL_SENDER"), Read,
       Lock("LAST_IDR_INSTANT"), Unlock("LAST_IDR_INSTANT"),
       Lock("EVENTS_QUEUE"), Unlock("EVENTS_QUEUE"),
       Read,
       Lock("DECODER_CONFIG"), Unlock("DECODER_CONFIG"),
       Lock("VIDEO_RECORDING_FILE"), Unlock("VIDEO_RECORDING_FILE"),
       Unread,
       Lock("LAST_IDR_INSTANT"), Unlock("LAST_IDR_INSTANT"),
       Unread,
       Lock("VIDEO_MIRROR_SENDER"), Unlock("VIDEO_MIRROR_SENDER"),
       Lock("VIDEO_RECORDING_FILE"), Unlock("VIDEO_RECORDING_FILE"),
       Lock("STATISTICS_MANAGER"), Lock("BITRATE_MANAGER"),
       Unlock("BITRATE_MANAGER"), Unlock("STATISTICS_MANAGER"),
       Unlock("VIDEO_CHANNEL_SENDER") >>

\* lib.rs:279-347  send_video_nal for a frame that finds the flag set (the
\* read of line 306 is made), passes the gate and meets a full channel
\* (line 331), no rotation being due.
NalFullProgram ==
    << Lock("VIDEO_CHANNEL_SENDER"), Read,
       Lock("LAST_IDR_INSTANT"), Unlock("LAST_IDR_INSTANT"),
       Unread,
       Read, Unread,
       Lock("VIDEO_MIRROR_SENDER"), Unlock("VIDEO_MIRROR_SENDER"),
       Lock("VIDEO_RECORDING_FILE"), Unlock("VIDEO_RECORDING_FILE"),
       Lock("EVENTS_QUEUE"), Unlock("EVENTS_QUEUE"),
       Lock("STATISTICS_MANAGER"), Lock("BITRATE_MANAGER"),
       Unlock("BITRATE_MANAGER"), Unlock("STATISTICS_MANAGER"),
       Unlock("VIDEO_CHANNEL_SENDER") >>

\* lib.rs:259-272  set_video_config_nals
ConfigProgram ==
    << Lock("VIDEO_MIRROR_SENDER"), Unlock("VIDEO_MIRROR_SENDER"),
       Lock("VIDEO_RECORDING_FILE"), Unlock("VIDEO_RECORDING_FILE"),
       Lock("DECODER_CONFIG"), Unlock("DECODER_CONFIG") >>

\* lib.rs:350-367  get_dynamic_encoder_params
EncoderParamsProgram ==
    << Read, Lock("BITRATE_MANAGER"), Unread, Unlock("BITRATE_MANAGER"),
       Lock("STATISTICS_MANAGER"), Unlock("STATISTICS_MANAGER") >>

\* lib.rs:375-384  report_present
ReportPresentProgram ==
    << Lock("STATISTICS_MANAGER"), Unlock("STATISTICS_MANAGER"),
       Read, Lock("BITRATE_MANAGER"), Unlock("BITRATE_MANAGER"), Unread >>

\* lib.rs:405-456  Drop: the write guards of lines 406, 434 and 440 and the
\* read of the wait loop at line 449
TeardownProgram == << Write, Unwrite, Write, Unwrite, Write, Unwrite, Read, Unread >>

\* The connection module changes a client's entry of the client table, which
\* lives in SERVER_DATA_MANAGER, under its write lock.
ClientTableProgram == << Write, Unwrite >>

Programs(th) ==
    CASE th = "encoder" -> {NalRotateProgram, NalFullProgram, ConfigProgram}
      [] th = "present" -> {EncoderParamsProgram, ReportPresentProgram}
      [] th = "handshake" -> {ClientTableProgram}
      [] th = "teardown" -> {TeardownProgram}

nonLockVars == <<lifecycleVars, teardownVars, channelVars, dispatchVars, settingsVars,
                 mediaVars, observedVars, EVENTS_QUEUE, clients>>

Running(th) == lockPc[th] \in 1..Len(lockProg[th])
Instr(th) == lockProg[th][lockPc[th]]
\* The program counter after the current instruction; 0 = the handler returned.
Advance(th) ==
    [lockPc EXCEPT ![th] = IF @ = Len(lockProg[th]) /\ th # "teardown" THEN 0 ELSE @ + 1]

\* A thread enters a handler. The &self methods run only on a live context,
\* and drop runs only once no method is running (lib.rs:393-401).
start_handler(th) ==
    /\ lockPc[th] = 0
    /\ lockPc["teardown"] = 0
    /\ th = "teardown" => (lockPc["encoder"] = 0 /\ lockPc["present"] = 0)
    /\ \E prog \in Programs(th) : lockProg' = [lockProg EXCEPT ![th] = prog]
    /\ lockPc' = [lockPc EXCEPT ![th] = 1]
    /\ UNCHANGED <<mutexOwner, sdmReaders, sdmWriter, sdmWriterWaiting, nonLockVars>>

\* parking_lot::Mutex::lock: granted when the mutex is free (not reentrant)
mutex_lock(th) ==
    /\ Running(th)
    /\ Instr(th).op = "lock"
    /\ mutexOwner[Instr(th).lock] = "free"
    /\ mutexOwner' = [mutexOwner EXCEPT ![Instr(th).lock] = th]
    /\ lockPc' = Advance(th)
    /\ UNCHANGED <<lockProg, sdmReaders, sdmWriter, sdmWriterWaiting, nonLockVars>>

mutex_unlock(th) ==
    /\ Running(th)
    /\ Instr(th).op = "unlock"
    /\ mutexOwner' = [mutexOwner EXCEPT ![Instr(th).lock] = "free"]
    /\ lockPc' = Advance(th)
    /\ UNCHANGED <<lockProg, sdmReaders, sdmWriter, sdmWriterWaiting, nonLockVars>>

\* parking_lot::RwLock::read: granted when no writer holds the lock and no
\* writer is waiting for it, also to a thread that already holds a read guard
ReadGranted(th) ==
    /\ sdmWriter = "none"
    /\ sdmWriterWaiting = {}

sdm_read(th) ==
    /\ Running(th)
    /\ Instr(th).op = "read"
    /\ ReadGranted(th)
    /\ sdmReaders' = [sdmReaders EXCEPT ![th] = @ + 1]
    /\ lockPc' = Advance(th)
    /\ UNCHANGED <<lockProg, mutexOwner, sdmWriter, sdmWriterWaiting, nonLockVars>>

sdm_unread(th) ==
    /\ Running(th)
    /\ Instr(th).op = "unread"
    /\ sdmReaders' = [sdmReaders EXCEPT ![th] = @ - 1]
    /\ lockPc' = Advance(th)
    /\ UNCHANGED <<lockProg, mutexOwner, sdmWriter, sdmWriterWaiting, nonLockVars>>

WriteGranted == sdmWriter = "none" /\ \A th \in LockThreads : sdmReaders[th] = 0

\* parking_lot::RwLock::write finds the lock taken: the thread parks, and
\* from then on no new read guard is granted
sdm_write_park(th) ==
    /\ Running(th)
    /\ Instr(th).op = "write"
    /\ th \notin sdmWriterWaiting
    /\ ~WriteGranted
    /\ sdmWriterWaiting' = sdmWriterWaiting \cup {th}
    /\ UNCHANGED <<lockPc, lockProg, mutexOwner, sdmReaders, sdmWriter, nonLockVars>>

\* parking_lot::RwLock::write: granted when no guard is out
sdm_write(th) ==
    /\ Running(th)
    /\ Instr(th).op = "write"
    /\ WriteGranted
    /\ sdmWriter' = th
    /\ sdmWriterWaiting' = sdmWriterWaiting \ {th}
    /\ lockPc' = Advance(th)
    /\ UNCHANGED <<lockProg, mutexOwner, sdmReaders, nonLockVars>>

sdm_unwrite(th) ==
    /\ Running(th)
    /\ Instr(th).op = "unwrite"
    /\ sdmWriter' = "none"
    /\ lockPc' = Advance(th)
    /\ UNCHANGED <<lockProg, mutexOwner, sdmReaders, sdmWriterWaiting, nonLockVars>>

\* The current instruction of a thread inside a handler can be carried out.
CanStep(th) ==
    CASE Instr(th).op = "lock" -> mutexOwner[Instr(th).lock] = "free"
      [] Instr(th).op = "read" -> ReadGranted(th)
      [] Instr(th).op = "write" -> WriteGranted \/ th \notin sdmWriterWaiting
      [] OTHER -> TRUE

NextLocks ==
    \/ \E th \in LockThreads : start_handler(th)
    \/ \E th \in LockThreads : mutex_lock(th)
    \/ \E th \in LockThreads : mutex_unlock(th)
    \/ \E th \in LockThreads : sdm_read(th)
    \/ \E th \in LockThreads : sdm_unread(th)
    \/ \E th \in LockThreads : sdm_write_park(th)
    \/ \E th \in LockThreads : sdm_write(th)
    \/ \E th \in LockThreads : sdm_unwrite(th)

SpecLocks == InitStreaming /\ [][NextLocks]_vars

\* The thread that runs Drop::drop keeps running: each of its steps is
\* taken once it can be. Nothing obliges a client to disconnect.
FairSpec == Spec /\ WF_vars(Drop)

\* ================================================================ claims
FlagCall == lastCall.outcome # "None"
PassedToTrySend == lastCall.outcome \in {"Forwarded", "ChannelFull", "Disconnected"}

\* C1: after a call whose IDR frame was accepted by the channel the corruption
\* flag is false, and after a call whose try_send failed with channel-full the
\* flag is true.
CorruptionInvariant ==
    /\ (lastCall.outcome = "Forwarded" /\ lastCall.is_idr) => ~STREAM_CORRUPTED
    /\ lastCall.outcome = "ChannelFull" => STREAM_CORRUPTED

\* An IDR frame arrived while the flag was clear, met a full channel, and the
\* flag is set again.
CorruptionWitness ==
    /\ lastCall.outcome = "ChannelFull"
    /\ lastCall.is_idr
    /\ ~lastCall.corruptedBefore
    /\ STREAM_CORRUPTED

\* C2: with avoid_video_glitching enabled, a non-IDR frame is passed to
\* try_send only if, since the flag was last set, an IDR frame has been
\* accepted by the channel.
GlitchAvoidance ==
    (avoid_video_glitching /\ PassedToTrySend /\ ~lastCall.is_idr)
        => ~lastCall.awaitingBefore

\* C3 as claimed: the packets the channel accepted are a subsequence of the
\* submission sequence, i.e. their timestamps strictly increase.
Transport == delivered \o videoChannel

ForwardedInSubmissionOrder ==
    \A i, j \in DOMAIN Transport :
        i < j => Transport[i].timestamp < Transport[j].timestamp

\* C3 as amended: no packet is accepted twice, and a frame whose call had
\* returned before another frame's call began never comes after that frame in
\* the channel.
ForwardedInCallOrder ==
    \A i, j \in DOMAIN Transport :
        i < j => /\ Transport[i].timestamp # Transport[j].timestamp
                 /\ Transport[j].timestamp \notin doneAtInvoke[Transport[i].timestamp]

\* Two frames of calls that did not overlap were both accepted, with a
\* dropped frame between them.
ForwardedWithGapWitness ==
    \E i, j \in DOMAIN Transport :
        /\ i < j
        /\ Transport[j].timestamp > Transport[i].timestamp + 1
        /\ Transport[i].timestamp \in doneAtInvoke[Transport[j].timestamp]

\* C4: the flag goes from true to false in a call only if that call's frame
\* was an IDR that the channel accepted.
FlagClearedOnlyByAcceptedIdr ==
    (FlagCall /\ lastCall.corruptedBefore /\ ~STREAM_CORRUPTED)
        => (lastCall.is_idr /\ lastCall.outcome = "Forwarded")

\* C5 as claimed: after a call with an IDR frame, accepted or dropped because
\* the channel was full, the flag is false.
IdrAlwaysClearsFlag ==
    (lastCall.is_idr /\ lastCall.outcome \in {"Forwarded", "ChannelFull"})
        => ~STREAM_CORRUPTED

\* C5 as amended: after a call with an IDR frame made while a sender is
\* present, the flag is true exactly when the try_send failed with
\* channel-full.
IdrClearsFlagUnlessFull ==
    (lastCall.is_idr /\ lastCall.outcome \notin {"None", "NoSender"})
        => (STREAM_CORRUPTED <=> lastCall.outcome = "ChannelFull")

\* An IDR frame arrived while the flag was set, was accepted, and the flag is
\* clear.
IdrClearsFlagWitness ==
    /\ lastCall.is_idr
    /\ lastCall.outcome = "Forwarded"
    /\ lastCall.corruptedBefore
    /\ ~STREAM_CORRUPTED

LifecycleRank(l) == IF l = "StartingUp" THEN 0 ELSE IF l = "Resumed" THEN 1 ELSE 2

\* C6: LIFECYCLE_STATE never moves backward along
\* StartingUp -> Resumed -> ShuttingDown.
LifecycleMonotonic ==
    [][LifecycleRank(LIFECYCLE_STATE') >= LifecycleRank(LIFECYCLE_STATE)]_vars

\* A restart has taken the lifecycle to ShuttingDown after clients connected
\* under Resumed.
LifecycleWitness ==
    /\ LIFECYCLE_STATE = "ShuttingDown"
    /\ IS_RESTARTING
    /\ \E h \in Hostnames : clients[h] = "Disconnecting"

\* C7: once drop has begun it eventually returns.
TeardownTerminates == (dropPc = "lifecycle") ~> (dropPc = "done")

\* C8: a second run of the shutdown path changes nothing of the terminal state
\* the first run left (lifecycle, client states, drivers backup, connection
\* thread), and its wait loop has nothing to wait for.
TeardownIdempotent ==
    teardownRuns >= 2 =>
        /\ TerminalState = terminal
        /\ terminal.lifecycle = "ShuttingDown"
        /\ ~terminal.drivers_backup
        /\ ~WaitForClients(clients)

\* The second run has completed after a first run that restored the drivers.
TeardownTwiceWitness ==
    /\ teardownRuns = 2
    /\ dropPc = "done"
    /\ driversRestored
    /\ IS_RESTARTING

\* C9 as claimed: the connection thread is released and the driver
\* registration restored only once all clients are Disconnected.
ReleaseOnlyAfterWait ==
    (dropPc \in {"config", "restore", "wait"} \/ driversRestored)
        => AllDisconnected(clients)

\* C9 as amended: clients are marked first; the connection thread is joined,
\* the openvr config applied and the driver registration restored before the
\* wait; the wait ends only with all clients Disconnected; the web server
\* runtime is released after the wait.
TeardownOrder ==
    /\ dropPc \in {"join", "config", "restore", "wait", "runtime", "done"}
          => \A h \in Hostnames : clients[h] \in {"Disconnecting", "Disconnected"}
    /\ dropPc \in {"wait", "runtime", "done"}
          => (~CONNECTION_THREAD /\ ~drivers_backup /\ openvrConfigApplied)
    /\ dropPc \in {"runtime", "done"} => AllDisconnected(clients)
    /\ ~WEBSERVER_RUNTIME
          => (AllDisconnected(clients) /\ (teardownRuns = 1 => dropPc = "done"))

\* The drivers are restored and the connection thread taken while a client is
\* still Disconnecting and the wait has not ended.
TeardownOrderWitness ==
    /\ dropPc = "wait"
    /\ teardownRuns = 1
    /\ driversRestored
    /\ \E h \in Hostnames : clients[h] = "Disconnecting"

EventQueueFifo ==
    [][/\ Len(EVENTS_QUEUE') < Len(EVENTS_QUEUE)
            => /\ EVENTS_QUEUE' = Tail(EVENTS_QUEUE)
               /\ lastPolled' = Head(EVENTS_QUEUE)
       /\ Len(EVENTS_QUEUE') >= Len(EVENTS_QUEUE)
            => SubSeq(EVENTS_QUEUE', 1, Len(EVENTS_QUEUE)) = EVENTS_QUEUE
       /\ lastPolled' # lastPolled
            => (lastPolled' = "None") = (EVENTS_QUEUE = <<>>)
      ]_vars

\* poll_event returned the connection module's event that was pushed first,
\* and two events pushed later, by two producers, are pending in push order
\* behind it.
EventQueueFifoWitness ==
    /\ lastPolled = "ClientConnected"
    /\ EVENTS_QUEUE = <<"RequestIDR", "ClientDisconnected">>
    /\ lastCall.outcome = "ChannelFull"

PendingRequestIdr ==
    Cardinality({i \in DOMAIN EVENTS_QUEUE : EVENTS_QUEUE[i] = "RequestIDR"})

\* C12 as claimed: once set_video_config_nals has returned, DECODER_CONFIG
\* holds a config and no RequestIDR event enqueued before the call is still
\* pending in the event queue.
ConfigSupersedesIdrRequests ==
    lastOp = "set_video_config_nals" => (DECODER_CONFIG # 0 /\ PendingRequestIdr = 0)

\* C12, amended: there is one current decoder config, and a call of
\* set_video_config_nals replaces it by the config handed over; the call
\* leaves the event queue, with the RequestIDR events pending in it, as it was.
ConfigReplacedEventsKept ==
    [][(/\ lastOp' = "set_video_config_nals"
        /\ (lastOp # lastOp' \/ DECODER_CONFIG' # DECODER_CONFIG))
            => /\ DECODER_CONFIG' = DECODER_CONFIG + 1
               /\ EVENTS_QUEUE' = EVENTS_QUEUE
      ]_vars

\* A second config has replaced the first one while a RequestIDR event pushed
\* by an earlier frame is still pending.
ConfigReplacedWitness ==
    /\ lastOp = "set_video_config_nals"
    /\ DECODER_CONFIG = MaxConfigs
    /\ PendingRequestIdr >= 1

\* C13: a call whose try_send failed with channel-full has returned with the
\* corruption flag set, the channel as full as it was (the frame is dropped)
\* and one RequestIDR pushed by the failure branch, behind the one the
\* rotation step pushes when a rotation is due; a call that dropped the frame
\* while awaiting a key frame pushed nothing for the drop.
FullPathEffects ==
    /\ lastCall.outcome = "ChannelFull"
          => /\ STREAM_CORRUPTED
             /\ Len(videoChannel) = ChannelCap
             /\ lastCall.events = RotationEvents(lastCall.rotationDue) \o <<"RequestIDR">>
    /\ lastCall.outcome = "AwaitingKeyFrame"
          => lastCall.events = RotationEvents(lastCall.rotationDue)

\* An IDR frame that found the flag clear met a full channel: the flag is set
\* again and exactly one RequestIDR was pushed by the call.
FullPathWitness ==
    /\ lastCall.outcome = "ChannelFull"
    /\ lastCall.is_idr
    /\ ~lastCall.corruptedBefore
    /\ ~lastCall.rotationDue
    /\ lastCall.events = <<"RequestIDR">>
    /\ STREAM_CORRUPTED

\* C14 as claimed: report_frame_encoded is called on the Statistics Manager
\* and the Bitrate Manager only for a frame the channel accepted.
ReportOnlyWhenAccepted ==
    lastCall.statsReported => lastCall.outcome = "Forwarded"

\* C14, amended: report_frame_encoded is called on both managers for every
\* frame submitted while a sender and a statistics manager are present,
\* whatever became of the frame, and for no other frame.
ReportForEveryDispatchedFrame ==
    lastCall.statsReported
        = (lastCall.outcome \notin {"None", "NoSender"} /\ STATISTICS_MANAGER)

\* A frame dropped because the channel was full has been reported.
ReportForDroppedWitness ==
    /\ lastCall.outcome = "ChannelFull"
    /\ lastCall.statsReported

RecordedOnlyAccepted ==
    (lastCall.recorded \/ lastCall.mirrored) => lastCall.outcome = "Forwarded"

\* C16, amended: a payload is appended to the recording file, or sent to the
\* mirror, only for a frame that passed the corruption gate and was handed to
\* try_send, whatever try_send answered; a frame dropped while awaiting a key
\* frame is never written, and every frame handed to try_send is mirrored
\* when a mirror is attached.
RecordedOnlyPastGate ==
    /\ lastCall.recorded => (PassedToTrySend /\ VIDEO_RECORDING_FILE.open)
    /\ lastCall.mirrored = (PassedToTrySend /\ VIDEO_MIRROR_SENDER)

\* A frame the full channel refused has been written to the recording file.
RecordedDroppedWitness ==
    /\ lastCall.outcome = "ChannelFull"
    /\ lastCall.recorded
    /\ VIDEO_RECORDING_FILE.open

\* C17: the recording file that is open starts with a decoder config, if
\* there is one, and the first frame payload in it is an IDR frame.
SegmentSelfContained ==
    VIDEO_RECORDING_FILE.open
        => /\ VIDEO_RECORDING_FILE.first # "non_idr"
           /\ DECODER_CONFIG # 0 => VIDEO_RECORDING_FILE.header # 0

\* C19: as long as the host has not called poll_event, the RequestIDR entries
\* pending in EVENTS_QUEUE stay below a bound that does not depend on how many
\* congested calls were made. MaxEvents is the most the model lets the queue
\* hold (the VecDeque has no capacity limit), so the bound is below it.
PendingIdrBounded ==
    lastPolled = "Never" => PendingRequestIdr < MaxEvents

\* C20: a call of send_video_nal made while VIDEO_CHANNEL_SENDER is None
\* leaves the corruption flag, the rotation timer, the event queue, the
\* recording file and the video channel as they were, and sends nothing to the
\* mirror and reports nothing to the statistics and bitrate managers.
NoSenderNoEffect ==
    [][\A t \in Threads :
          (pc[t] = "called" /\ pc'[t] = "idle" /\ ~VIDEO_CHANNEL_SENDER)
            => /\ UNCHANGED <<STREAM_CORRUPTED, rotationElapsed, EVENTS_QUEUE,
                              VIDEO_RECORDING_FILE, VIDEO_MIRROR_SENDER,
                              STATISTICS_MANAGER, DECODER_CONFIG, videoChannel>>
               /\ ~lastCall'.recorded
               /\ ~lastCall'.mirrored
               /\ ~lastCall'.statsReported
      ]_vars

\* An IDR frame was submitted with no sender installed while the flag was
\* set, a rotation was due and a recording was open: all of them are as before.
NoSenderWitness ==
    /\ lastOp = "send_video_nal"
    /\ lastCall.outcome = "NoSender"
    /\ lastCall.is_idr
    /\ STREAM_CORRUPTED
    /\ rotationElapsed
    /\ VIDEO_RECORDING_FILE.open
    /\ VIDEO_RECORDING_FILE.first = "none"
    /\ VIDEO_MIRROR_SENDER
    /\ STATISTICS_MANAGER

\* C18: the handlers cannot deadlock on the shared locks. No thread asks for
\* a SERVER_DATA_MANAGER read guard while it holds one and a writer is waiting,
\* and whenever threads are inside handlers, one of them can carry out its
\* next lock operation.
LocksDeadlockFree ==
    /\ \A th \in LockThreads :
          (Running(th) /\ Instr(th).op = "read" /\ sdmReaders[th] > 0)
              => sdmWriterWaiting = {}
    /\ (\E th \in LockThreads : Running(th))
          => \E th \in LockThreads : Running(th) /\ CanStep(th)
====
